---- MODULE Spec2Model ----
(***************************************************************************)
(* A model of gh-cpi.py: one run of the command line tool that reads an    *)
(* issue file, creates a GitHub issue, adds it to a project and sets five  *)
(* project fields.  Every external `gh` process is modelled by two steps:  *)
(* the program appends the call to `calls` and blocks; the environment     *)
(* then chooses the outcome (exit status and output) when the call         *)
(* returns and the program runs on to its next call or to its end.         *)
(***************************************************************************)
EXTENDS Integers, Sequences, FiniteSets, TLC

VARIABLES
    pc,            \* position of the program: the call it is blocked in, or "read"/"done"
    file,          \* front matter of the issue file (content.metadata)
    today,         \* datetime.date.today() as a proleptic ordinal, <<>> until read
    calls,         \* the gh processes started so far, in order
    replies,       \* what the gh processes that have returned answered, in order
    owner,         \* the Owner found by Owner.find, <<>> until found
    issue,         \* the Issue built by Issue.read, <<>> until built
    args,          \* keyword arguments of create_project_issue, <<>> until called
    project,       \* the ProjectInfo built by get_project_info, <<>> until built
    createOutput,  \* raw standard output of `gh issue create`, <<>> until returned
    issue_url,     \* local issue_url of create_project_issue
    item_id,       \* local item_id of create_project_issue
    returned,      \* return value of create_project_issue, <<>> until it returns
    stdout,        \* writes to standard output, in order
    stderr,        \* writes to standard error, in order
    raised,        \* name of the exception that ended the run, "" if none
    exitCode       \* <<>> while running, <<code>> once the process has ended

vars == <<pc, file, today, calls, replies, owner, issue, args, project,
          createOutput, issue_url, item_id, returned, stdout, stderr, raised,
          exitCode>>

None == <<>>
Some(x) == <<x>>

(***************************************************************************)
(* Schema types                                                            *)
(***************************************************************************)
StatusEnum == {"Inbox", "Todo", "Next", "Current", "Done"}
IterationEnum == {"@current", "@next"}
PriorityEnum == {"1", "2", "3"}
SizeEnum == {"S", "M", "L", "?"}
DifficultyEnum == {"E", "M", "H", "?"}

\* datetime.date(2022, 6, 6).toordinal()
DefaultInception == 738312

\* The field defaults of class Issue.
IssueDefaults ==
    [status |-> "Todo", iteration |-> "@current", priority |-> "2",
     size |-> "M", difficulty |-> "M", inception |-> DefaultInception]

(***************************************************************************)
(* Inputs: the issue files and the dates the run may see.  A metadata key  *)
(* is None when the front matter does not have it, Some(value) otherwise.  *)
(***************************************************************************)
MaxDays == 15
ExplicitInception == DefaultInception + 8
Days == DefaultInception .. (DefaultInception + MaxDays)

Files ==
    [owner      : {None, Some("acme")},
     repository : {None, Some("widgets")},
     project    : {Some(7)},
     title      : {Some(<<"Fix ", "{today}">>), Some(<<"Fix ", "{bogus}">>)},
     status     : {None, Some("Current"), Some("Doing")},
     iteration  : {None, Some("@next"), Some("@later")},
     priority   : {None, Some("1"), Some("9")},
     size       : {None, Some("L"), Some("XL")},
     difficulty : {None, Some("H"), Some("X")},
     inception  : {None, Some(ExplicitInception)}]

(***************************************************************************)
(* Strings that the program takes apart are sequences of tokens            *)
(***************************************************************************)
Whitespace == {" ", "\n"}

RECURSIVE Concat(_)
Concat(s) == IF s = <<>> THEN "" ELSE Head(s) \o Concat(Tail(s))

RECURSIVE lstrip(_)
lstrip(s) == IF s # <<>> /\ Head(s) \in Whitespace THEN lstrip(Tail(s)) ELSE s

RECURSIVE rstrip(_)
rstrip(s) ==
    IF s # <<>> /\ s[Len(s)] \in Whitespace
    THEN rstrip(SubSeq(s, 1, Len(s) - 1))
    ELSE s

\* str.strip()
strip(s) == rstrip(lstrip(s))

(***************************************************************************)
(* Issue model                                                             *)
(***************************************************************************)
Get(meta, key) == IF meta[key] = None THEN IssueDefaults[key] ELSE meta[key][1]

EnumOf ==
    [status |-> StatusEnum, iteration |-> IterationEnum, priority |-> PriorityEnum,
     size |-> SizeEnum, difficulty |-> DifficultyEnum]

EnumFields == <<"status", "iteration", "priority", "size", "difficulty">>

\* Mutant: the five fields are plain strings, no enumeration is checked.
ValidationErrors_NoEnums(meta) ==
    IF meta.repository = None THEN <<"repository">> ELSE <<>>

\* The violations pydantic reports for Issue(**args), in schema order.
ValidationErrors(meta) ==
    LET required == IF meta.repository = None THEN <<"repository">> ELSE <<>>
        bad(k) == IF Get(meta, k) \in EnumOf[k] THEN <<>> ELSE <<k>>
    IN  required \o bad("status") \o bad("iteration") \o bad("priority")
                 \o bad("size") \o bad("difficulty")

\* The Issue object built by cls(**args).
IssueOf(meta, own) ==
    [owner      |-> own,
     repository |-> meta.repository[1],
     project    |-> meta.project[1],
     title      |-> meta.title[1],
     status     |-> Get(meta, "status"),
     iteration  |-> Get(meta, "iteration"),
     priority   |-> Get(meta, "priority"),
     size       |-> Get(meta, "size"),
     difficulty |-> Get(meta, "difficulty"),
     inception  |-> Get(meta, "inception")]

\* Mutant: the quotient is truncated towards zero instead of floored.
iteration_number_current_Truncating(iss, td) ==
    LET days == td - iss.inception
    IN  IF days >= 0 THEN days \div 7 ELSE 0 - ((0 - days) \div 7)

iteration_number_current(iss, td) == (td - iss.inception) \div 7

iteration_number_next(iss, td) == iteration_number_current(iss, td) + 1

iteration_number(iss, td) ==
    IF iss.iteration = "@current"
    THEN iteration_number_current(iss, td)
    ELSE iteration_number_next(iss, td)

iteration_title(iss, td) == "Iteration " \o ToString(iteration_number(iss, td))

\* The placeholders title.format() is given.  Dates are rendered as their
\* ordinal; the calendar-based placeholders are rendered as opaque tokens.
FormatKeys ==
    {"{current_iteration}", "{next_iteration}", "{now}", "{today}", "{tomorrow}",
     "{this_week}", "{next_week}", "{this_month}", "{next_month}"}

IsPlaceholder(part) == part \in FormatKeys \cup {"{bogus}"}

FormatValue(iss, td, part) ==
    CASE part = "{current_iteration}" -> ToString(iteration_number_current(iss, td))
      [] part = "{next_iteration}"    -> ToString(iteration_number_next(iss, td))
      [] part = "{today}"             -> ToString(td)
      [] part = "{tomorrow}"          -> ToString(td + 1)
      [] OTHER                        -> "<" \o part \o ">"

\* TRUE when title.format(...) raises KeyError for an unknown placeholder.
title_raises(iss) ==
    \E i \in DOMAIN iss.title :
        IsPlaceholder(iss.title[i]) /\ iss.title[i] \notin FormatKeys

title_rendered(iss, td) ==
    Concat([i \in DOMAIN iss.title |->
              IF IsPlaceholder(iss.title[i])
              THEN FormatValue(iss, td, iss.title[i])
              ELSE iss.title[i]])

(***************************************************************************)
(* Project info resolver                                                   *)
(***************************************************************************)
\* {f["name"]: f["id"] for f in field["options"]}: a later entry replaces an
\* earlier one of the same name.
build_options(field) ==
    LET o == field.options
        last(n) == CHOOSE i \in DOMAIN o :
                       /\ o[i].name = n
                       /\ \A j \in DOMAIN o : o[j].name = n => j <= i
    IN  [n \in {o[i].name : i \in DOMAIN o} |-> o[last(n)].id]

\* The ProjectInfo built from result["data"]["owner"]["projectV2"].
ProjectInfoOf(data) ==
    [id         |-> data.id,
     status     |-> [id |-> data.status.id, options |-> build_options(data.status)],
     iteration  |-> [id |-> data.iteration.id,
                     options |-> build_options(data.iteration.configuration)],
     priority   |-> [id |-> data.priority.id, options |-> build_options(data.priority)],
     size       |-> [id |-> data.size.id, options |-> build_options(data.size)],
     difficulty |-> [id |-> data.difficulty.id,
                     options |-> build_options(data.difficulty)]]

\* "user" if owner.type == "User" else "organization"
query_name(own) == IF own.type = "User" THEN "user" ELSE "organization"

(***************************************************************************)
(* What the remote side may answer                                         *)
(***************************************************************************)
Opts(prefix, names) ==
    [i \in DOMAIN names |-> [id |-> prefix \o ToString(i), name |-> names[i]]]

MinIteration == (DefaultInception - ExplicitInception) \div 7
MaxIteration == (MaxDays \div 7) + 1

IterationTitles ==
    [i \in 1 .. (MaxIteration - MinIteration + 1) |->
        "Iteration " \o ToString(MinIteration + i - 1)]

SelectFieldAnswers(fid, prefix, full, partial) ==
    {[id |-> fid, options |-> Opts(prefix, full)],
     [id |-> fid, options |-> Opts(prefix, partial)]}

IterationFieldAnswers ==
    {[id |-> "F_iteration", configuration |-> [options |-> Opts("it_", IterationTitles)]],
     [id |-> "F_iteration",
      configuration |-> [options |-> Opts("it_", <<"Iteration 0", "Iteration 1">>)]]}

ProjectAnswers ==
    [id         : {"PVT_1"},
     status     : SelectFieldAnswers("F_status", "st_",
                      <<"Inbox", "Todo", "Next", "Current", "Done">>, <<"Todo", "Done">>),
     iteration  : IterationFieldAnswers,
     priority   : SelectFieldAnswers("F_priority", "pr_", <<"1", "2", "3">>, <<"2", "3">>),
     size       : SelectFieldAnswers("F_size", "sz_", <<"S", "M", "L", "?">>, <<"S", "M">>),
     difficulty : SelectFieldAnswers("F_difficulty", "df_",
                      <<"E", "M", "H", "?">>, <<"E", "M", "E">>)]

OwnerAnswers ==
    {[id |-> "O_1", login |-> "acme", type |-> "Organization"],
     [id |-> "U_1", login |-> "acme", type |-> "User"]}

\* Outcomes of a gh process: its return code and what its output parses to.
OwnerOutcomes ==
    {[rc |-> 1, owner |-> None], [rc |-> 0, owner |-> None]}
        \cup {[rc |-> 0, owner |-> Some(o)] : o \in OwnerAnswers}

ProjectOutcomes ==
    {[rc |-> 1, data |-> None], [rc |-> 0, data |-> None]}
        \cup {[rc |-> 0, data |-> Some(d)] : d \in ProjectAnswers}

CreateOutcomes ==
    {[rc |-> 1, out |-> <<>>],
     [rc |-> 0, out |-> <<"https://github.com/acme/widgets/issues/1", "\n">>],
     [rc |-> 0, out |-> <<"https://github.com/", "acme/widgets/issues/2">>]}

AddOutcomes ==
    {[rc |-> 1, id |-> None], [rc |-> 0, id |-> None], [rc |-> 0, id |-> Some("PVTI_1")]}

EditOutcomes == {[rc |-> 1], [rc |-> 0]}

(***************************************************************************)
(* Command runner: the gh processes                                        *)
(***************************************************************************)
\* gh(): subprocess.run starts the process and blocks until it returns.
gh(commands, options, arguments) ==
    calls' = Append(calls, [commands |-> commands, options |-> options,
                            arguments |-> arguments])

\* gh_gql(): gh api graphql --field query=... --field key=value ...
gh_gql(query, variables) ==
    gh(<<"api", "graphql">>, <<<<"field", "query=" \o query>>>> \o variables, <<>>)

\* The process returns: the environment has chosen its outcome.
Returns(answer) == replies' = Append(replies, answer)

\* Number of gh processes that have returned.
completed == Len(replies)

\* An uncaught exception: traceback on standard error, exit status 1.
Raise(exc) ==
    /\ pc' = "done"
    /\ raised' = exc
    /\ exitCode' = Some(1)
    /\ stderr' = Append(stderr, "Traceback (most recent call last): " \o exc)
    /\ stdout' = stdout

\* Messages written, then sys.exit(code).
sys_exit(code, out, err) ==
    /\ pc' = "done"
    /\ exitCode' = Some(code)
    /\ stdout' = stdout \o out
    /\ stderr' = stderr \o err
    /\ raised' = raised

\* The program blocks in its next gh call.
Goto(label) ==
    /\ pc' = label
    /\ UNCHANGED <<exitCode, stdout, stderr, raised>>

Init ==
    /\ pc = "read"
    /\ file \in Files
    /\ today = None
    /\ calls = <<>>
    /\ replies = <<>>
    /\ owner = None
    /\ issue = None
    /\ args = None
    /\ project = None
    /\ createOutput = None
    /\ issue_url = None
    /\ item_id = None
    /\ returned = None
    /\ stdout = <<>>
    /\ stderr = <<>>
    /\ raised = ""
    /\ exitCode = None


(***************************************************************************)
(* Issue.read up to the owner lookup                                       *)
(***************************************************************************)
\* Mutant: the lookup is made without checking that the owner key is there.
Issue_read_NoOwnerCheck ==
    /\ pc = "read"
    /\ gh(<<"api", "graphql">>,
          << <<"field", "query=repositoryOwner">>,
             <<"field", "login=" \o (IF file.owner = None THEN "None" ELSE file.owner[1])>> >>,
          <<>>)
    /\ pc' = "owner_wait"
    /\ UNCHANGED <<exitCode, stdout, stderr, raised>>
    /\ UNCHANGED <<file, today, replies, owner, issue, args, project,
                   createOutput, issue_url, item_id, returned>>

OwnerQuery == "repositoryOwner"

Issue_read ==
    /\ pc = "read"
    /\ IF file.owner = None
       THEN /\ sys_exit(1, <<>>, <<"Error: 'owner' not found in metadata\n">>)
            /\ UNCHANGED calls
       ELSE /\ gh_gql(OwnerQuery, << <<"field", "login=" \o file.owner[1]>> >>)
            /\ Goto("owner_wait")
    /\ UNCHANGED <<file, today, replies, owner, issue, args, project,
                   createOutput, issue_url, item_id, returned>>

(***************************************************************************)
(* Owner.find returns; the rest of Issue.read; main evaluates the keyword  *)
(* arguments and create_project_issue starts the project info query        *)
(***************************************************************************)
\* The keyword arguments main passes to create_project_issue.
MainArgs(iss, td) ==
    [repo           |-> iss.owner.login \o "/" \o iss.repository,
     project_owner  |-> iss.owner,
     project_number |-> iss.project,
     title          |-> title_rendered(iss, td),
     status         |-> iss.status,
     iteration      |-> iteration_title(iss, td),
     priority       |-> iss.priority,
     size           |-> iss.size,
     difficulty     |-> iss.difficulty]

get_project_info_query(a) ==
    gh_gql(query_name(a.project_owner),
           << <<"field", "login=" \o a.project_owner.login>>,
              <<"field", "project=" \o ToString(a.project_number)>> >>)

Owner_find_return ==
    /\ pc = "owner_wait"
    /\ \E answer \in OwnerOutcomes, td \in Days :
        Returns(answer) /\
        IF answer.rc # 0
        THEN /\ Raise("RuntimeError")
             /\ UNCHANGED <<owner, issue, today, args, calls>>
        ELSE IF answer.owner = None
        THEN \* cls(**None) in Owner.find
             /\ Raise("TypeError")
             /\ UNCHANGED <<owner, issue, today, args, calls>>
        ELSE /\ owner' = answer.owner
             /\ IF ValidationErrors(file) # <<>>
                THEN /\ sys_exit(1, <<>>, <<"Error while reading issue file:\n",
                                           Concat(ValidationErrors(file))>>)
                     /\ UNCHANGED <<issue, today, args, calls>>
                ELSE LET iss == IssueOf(file, answer.owner[1]) IN
                     /\ issue' = Some(iss)
                     /\ today' = Some(td)
                     /\ IF title_raises(iss)
                        THEN /\ Raise("KeyError")
                             /\ UNCHANGED <<args, calls>>
                        ELSE /\ args' = Some(MainArgs(iss, td))
                             /\ get_project_info_query(MainArgs(iss, td))
                             /\ Goto("project_wait")
    /\ UNCHANGED <<file, project, createOutput, issue_url, item_id, returned>>

(***************************************************************************)
(* get_project_info returns; create_project_issue validates the requested  *)
(* values and starts `gh issue create`                                     *)
(***************************************************************************)
\* Mutant: the size is not checked.
InvalidField_NoSizeCheck(proj, a) ==
    IF a.status \notin DOMAIN proj.status.options THEN <<"status">>
    ELSE IF a.iteration \notin DOMAIN proj.iteration.options THEN <<"iteration">>
    ELSE IF a.priority \notin DOMAIN proj.priority.options THEN <<"priority">>
    ELSE IF a.difficulty \notin DOMAIN proj.difficulty.options THEN <<"difficulty">>
    ELSE <<>>

\* Mutant: the size is checked first.
InvalidField_SizeFirst(proj, a) ==
    IF a.size \notin DOMAIN proj.size.options THEN <<"size">>
    ELSE IF a.status \notin DOMAIN proj.status.options THEN <<"status">>
    ELSE IF a.iteration \notin DOMAIN proj.iteration.options THEN <<"iteration">>
    ELSE IF a.priority \notin DOMAIN proj.priority.options THEN <<"priority">>
    ELSE IF a.difficulty \notin DOMAIN proj.difficulty.options THEN <<"difficulty">>
    ELSE <<>>

\* The if/elif chain of create_project_issue: the field it reports, if any.
InvalidField(proj, a) ==
    IF a.status \notin DOMAIN proj.status.options THEN <<"status">>
    ELSE IF a.iteration \notin DOMAIN proj.iteration.options THEN <<"iteration">>
    ELSE IF a.priority \notin DOMAIN proj.priority.options THEN <<"priority">>
    ELSE IF a.size \notin DOMAIN proj.size.options THEN <<"size">>
    ELSE IF a.difficulty \notin DOMAIN proj.difficulty.options THEN <<"difficulty">>
    ELSE <<>>

\* print(f"Invalid {field}: {value}")
InvalidMessage(field, value) == "Invalid " \o field \o ": " \o value \o "\n"

create_issue(a) ==
    gh(<<"issue", "create">>,
       << <<"repo", a.repo>>, <<"title", a.title>>, <<"body", "">>,
          <<"assignee", "">> >>,
       <<>>)

get_project_info_return ==
    /\ pc = "project_wait"
    /\ \E answer \in ProjectOutcomes :
        Returns(answer) /\
        IF answer.rc # 0
        THEN /\ Raise("RuntimeError")
             /\ UNCHANGED <<project, calls>>
        ELSE IF answer.data = None
        THEN \* result["data"]["owner"]["projectV2"] is null
             /\ Raise("TypeError")
             /\ UNCHANGED <<project, calls>>
        ELSE LET proj == ProjectInfoOf(answer.data[1])
                 bad == InvalidField(proj, args[1])
             IN  /\ project' = Some(proj)
                 /\ IF bad # <<>>
                    THEN /\ sys_exit(1, <<InvalidMessage(bad[1], args[1][bad[1]])>>, <<>>)
                         /\ UNCHANGED calls
                    ELSE /\ create_issue(args[1])
                         /\ Goto("create_wait")
    /\ UNCHANGED <<file, today, owner, issue, args, createOutput, issue_url,
                   item_id, returned>>

(***************************************************************************)
(* create_issue returns; add_issue_to_project starts                       *)
(***************************************************************************)
add_issue_to_project(a, url) ==
    gh(<<"project", "item-add">>,
       << <<"owner", a.project_owner.login>>, <<"url", url>>, <<"format", "json">> >>,
       <<ToString(a.project_number)>>)

create_issue_return ==
    /\ pc = "create_wait"
    /\ \E answer \in CreateOutcomes :
        Returns(answer) /\
        IF answer.rc # 0
        THEN /\ Raise("RuntimeError")
             /\ UNCHANGED <<createOutput, issue_url, calls>>
        ELSE /\ createOutput' = Some(answer.out)
             /\ issue_url' = Some(Concat(strip(answer.out)))
             /\ add_issue_to_project(args[1], Concat(strip(answer.out)))
             /\ Goto("add_wait")
    /\ UNCHANGED <<file, today, owner, issue, args, project, item_id, returned>>

(***************************************************************************)
(* The five field edits                                                    *)
(***************************************************************************)
set_project_item_field_select(project_id, item, field_id, option_id) ==
    gh(<<"project", "item-edit">>,
       << <<"id", item>>, <<"project-id", project_id>>, <<"field-id", field_id>>,
          <<"single-select-option-id", option_id>> >>,
       <<>>)

\* Mutant: the iteration is sent as a single-select option.
set_project_item_field_iteration_AsSelect(project_id, item, field_id, iteration_id) ==
    gh(<<"project", "item-edit">>,
       << <<"id", item>>, <<"project-id", project_id>>, <<"field-id", field_id>>,
          <<"single-select-option-id", iteration_id>> >>,
       <<>>)

set_project_item_field_iteration(project_id, item, field_id, iteration_id) ==
    gh(<<"project", "item-edit">>,
       << <<"id", item>>, <<"project-id", project_id>>, <<"field-id", field_id>>,
          <<"iteration-id", iteration_id>> >>,
       <<>>)

\* One of the five calls of create_project_issue, with the label the program
\* blocks at; project.<field>.options[value] raises KeyError for a missing key.
SetField(field, item, label) ==
    LET proj == project[1]
        value == args[1][field]
    IN  IF value \notin DOMAIN proj[field].options
        THEN /\ Raise("KeyError")
             /\ UNCHANGED calls
        ELSE /\ IF field = "iteration"
                THEN set_project_item_field_iteration(proj.id, item, proj[field].id,
                                                      proj[field].options[value])
                ELSE set_project_item_field_select(proj.id, item, proj[field].id,
                                                   proj[field].options[value])
             /\ Goto(label)

add_issue_to_project_return ==
    /\ pc = "add_wait"
    /\ \E answer \in AddOutcomes :
        Returns(answer) /\
        IF answer.rc # 0
        THEN /\ Raise("RuntimeError")
             /\ UNCHANGED <<item_id, calls>>
        ELSE IF answer.id = None
        THEN \* json.loads(output)["id"]
             /\ Raise("KeyError")
             /\ UNCHANGED <<item_id, calls>>
        ELSE /\ item_id' = answer.id
             /\ SetField("status", answer.id[1], "status_wait")
    /\ UNCHANGED <<file, today, owner, issue, args, project, createOutput,
                   issue_url, returned>>

\* Mutant: the return code of the edit is not looked at.
EditReturn_IgnoresFailure(label, nextField, nextLabel) ==
    /\ pc = label
    /\ \E answer \in EditOutcomes :
        Returns(answer) /\ SetField(nextField, item_id[1], nextLabel)
    /\ UNCHANGED <<file, today, owner, issue, args, project, createOutput,
                   issue_url, item_id, returned>>

\* A field edit returns and the next one starts.
EditReturn(label, nextField, nextLabel) ==
    /\ pc = label
    /\ \E answer \in EditOutcomes :
        Returns(answer) /\
        IF answer.rc # 0
        THEN /\ Raise("RuntimeError")
             /\ UNCHANGED calls
        ELSE SetField(nextField, item_id[1], nextLabel)
    /\ UNCHANGED <<file, today, owner, issue, args, project, createOutput,
                   issue_url, item_id, returned>>

\* Mutant: the iteration edit is left for the end and then forgotten.
set_status_return_SkipsIteration == EditReturn("status_wait", "priority", "priority_wait")

set_status_return == EditReturn("status_wait", "iteration", "iteration_wait")

set_iteration_return == EditReturn("iteration_wait", "priority", "priority_wait")

set_priority_return == EditReturn("priority_wait", "size", "size_wait")

set_size_return == EditReturn("size_wait", "difficulty", "difficulty_wait")

\* Mutant: the URL is returned and written whatever the last edit answered.
set_difficulty_return_IgnoresFailure ==
    /\ pc = "difficulty_wait"
    /\ \E answer \in EditOutcomes :
        Returns(answer) /\ returned' = issue_url /\ sys_exit(0, <<issue_url[1]>>, <<>>)
    /\ UNCHANGED <<file, today, calls, owner, issue, args, project, createOutput,
                   issue_url, item_id>>

\* The last edit returns; create_project_issue returns issue_url and main
\* writes it to standard output.
set_difficulty_return ==
    /\ pc = "difficulty_wait"
    /\ \E answer \in EditOutcomes :
        Returns(answer) /\
        IF answer.rc # 0
        THEN /\ Raise("RuntimeError")
             /\ UNCHANGED returned
        ELSE /\ returned' = issue_url
             /\ sys_exit(0, <<issue_url[1]>>, <<>>)
    /\ UNCHANGED <<file, today, calls, owner, issue, args, project, createOutput,
                   issue_url, item_id>>

Next ==
    \/ Issue_read
    \/ Owner_find_return
    \/ get_project_info_return
    \/ create_issue_return
    \/ add_issue_to_project_return
    \/ set_status_return
    \/ set_iteration_return
    \/ set_priority_return
    \/ set_size_return
    \/ set_difficulty_return

Spec == Init /\ [][Next]_vars

(***************************************************************************)
(* Reading the log of calls                                                *)
(***************************************************************************)
IsOwnerLookup(c) ==
    c.commands = <<"api", "graphql">> /\ c.options[1] = <<"field", "query=repositoryOwner">>

IsProjectQuery(c) ==
    c.commands = <<"api", "graphql">>
        /\ c.options[1] \in {<<"field", "query=user">>, <<"field", "query=organization">>}

IsCreate(c) == c.commands = <<"issue", "create">>

IsAdd(c) == c.commands = <<"project", "item-add">>

IsEdit(c) == c.commands = <<"project", "item-edit">>

IsSelectEdit(c) == IsEdit(c) /\ c.options[4][1] = "single-select-option-id"

IsIterationEdit(c) == IsEdit(c) /\ c.options[4][1] = "iteration-id"

Count(P(_)) == Cardinality({i \in DOMAIN calls : P(calls[i])})

\* The requested value of a field is not a key of the resolved option map.
NotAnOption(field) == args[1][field] \notin DOMAIN project[1][field].options

SomeInvalid == project # None /\ \E i \in DOMAIN EnumFields : NotAnOption(EnumFields[i])

Ended == pc = "done"

\* C1: once the project info is resolved and one of the five requested values
\* is not a key of its option map, the run has ended by sys.exit(1) and no
\* create-issue, add-to-project or field-edit call has been issued.
C1_InvalidValueStopsBeforeCreate ==
    SomeInvalid =>
        /\ Ended
        /\ exitCode = Some(1)
        /\ raised = ""
        /\ Count(IsCreate) = 0
        /\ Count(IsAdd) = 0
        /\ Count(IsEdit) = 0

\* C1 witness: only the size is not an option of the project and the run ended.
C1_Witness ==
    /\ Ended
    /\ project # None
    /\ NotAnOption("size")
    /\ ~NotAnOption("status")
    /\ ~NotAnOption("iteration")
    /\ ~NotAnOption("priority")
    /\ ~NotAnOption("difficulty")

\* The output of `gh issue create` with leading and trailing whitespace
\* removed, stated without strip().
IsStripped(url, out) ==
    \E i \in DOMAIN out, j \in DOMAIN out :
        /\ i <= j
        /\ out[i] \notin Whitespace
        /\ out[j] \notin Whitespace
        /\ \A k \in DOMAIN out : (k < i \/ k > j) => out[k] \in Whitespace
        /\ url = Concat(SubSeq(out, i, j))

HappyPath ==
    /\ Ended
    /\ raised = ""
    /\ project # None
    /\ ~SomeInvalid

\* C2: when the project info resolves, all five values are options and no
\* external call fails, there is exactly one create-issue call, one
\* add-to-project call and five field edits (four single-select, one
\* iteration), and create_project_issue returns the URL that the create-issue
\* call produced.
C2_HappyPathCalls ==
    HappyPath =>
        /\ Count(IsCreate) = 1
        /\ Count(IsAdd) = 1
        /\ Count(IsEdit) = 5
        /\ Count(IsSelectEdit) = 4
        /\ Count(IsIterationEdit) = 1
        /\ returned # None
        /\ IsStripped(returned[1], createOutput[1])
        /\ IsStripped(returned[1], replies[3].out)

\* C2 witness: a run through all calls whose create-issue output ended in a
\* newline.
C2_Witness ==
    /\ HappyPath
    /\ returned # None
    /\ createOutput[1][Len(createOutput[1])] = "\n"

\* C3: a file without the owner key ends the run with a non-zero exit code
\* and no external call is ever issued.
C3_MissingOwnerNoCalls ==
    file.owner = None =>
        /\ calls = <<>>
        /\ replies = <<>>
        /\ Ended => (exitCode # None /\ exitCode[1] # 0)
        /\ pc \in {"read", "done"}

\* C3 witness: such a run has ended.
C3_Witness ==
    /\ file.owner = None
    /\ Ended
    /\ stderr = <<"Error: 'owner' not found in metadata\n">>

\* The file gives one of the five enumerated fields a value outside its
\* enumeration.
HasInvalidEnum ==
    \E i \in DOMAIN EnumFields : Get(file, EnumFields[i]) \notin EnumOf[EnumFields[i]]

SchemaFailed ==
    /\ Len(stderr) = 2
    /\ stderr[1] = "Error while reading issue file:\n"
    /\ exitCode = Some(1)
    /\ raised = ""

\* C4 as stated, for the files that C3 does not already end: a file with a
\* value outside an enumeration ends the run by a schema failure with exit
\* code 1, and no external call (the owner lookup included) is issued before.
C4_SchemaFailsBeforeAnyCall ==
    (HasInvalidEnum /\ file.owner # None) =>
        /\ calls = <<>>
        /\ Ended => SchemaFailed

\* C4 as amended: for a file that has the owner key and a value outside an
\* enumeration, the owner lookup is the one external call of the run; once it
\* has returned an owner, schema construction fails with exit code 1 and no
\* Issue is built; if it fails or returns null the run ends with exit status 1
\* as well.
C4_SchemaFailsAfterOwnerLookup ==
    (HasInvalidEnum /\ file.owner # None) =>
        /\ \A i \in DOMAIN calls : i = 1 /\ IsOwnerLookup(calls[i])
        /\ issue = None
        /\ Ended => (calls # <<>> /\ exitCode = Some(1))
        /\ (Ended /\ owner # None) => SchemaFailed
        /\ SchemaFailed => owner # None

\* C4 witness: the schema failure happened with the owner lookup already made.
C4_Witness ==
    /\ HasInvalidEnum
    /\ SchemaFailed
    /\ Len(calls) = 1
    /\ IsOwnerLookup(calls[1])
    /\ replies[1].rc = 0

\* C5: when the owner lookup succeeds with a null owner the run ends with the
\* owner-not-found message on standard error and exit code 1, not with an
\* unhandled exception.
C5_OwnerNotFoundIsReported ==
    (Ended /\ replies # <<>> /\ replies[1] = [rc |-> 0, owner |-> None]) =>
        /\ raised = ""
        /\ exitCode = Some(1)
        /\ stderr = <<"Error: owner not found\n">>

\* The field ids of the edits among the calls, in the order of the calls.
RECURSIVE EditedFields(_)
EditedFields(cs) ==
    IF cs = <<>> THEN <<>>
    ELSE IF IsEdit(Head(cs)) THEN <<Head(cs).options[3][2]>> \o EditedFields(Tail(cs))
    ELSE EditedFields(Tail(cs))

CallPrefixInOrder ==
    /\ Len(calls) = 9
    /\ IsOwnerLookup(calls[1])
    /\ IsProjectQuery(calls[2])
    /\ IsCreate(calls[3])
    /\ IsAdd(calls[4])

OneAtATime == Len(calls) - completed \in {0, 1}

\* C6 as stated: a successful run issues the project-info query, create-issue,
\* add-to-project, the single-select edits of status, priority, size and
\* difficulty and only then the iteration edit, one call at a time.
C6_IterationEditLast ==
    /\ OneAtATime
    /\ exitCode = Some(0) =>
        /\ CallPrefixInOrder
        /\ EditedFields(calls) =
              <<"F_status", "F_priority", "F_size", "F_difficulty", "F_iteration">>

\* C6 as amended: a successful run issues the project-info query,
\* create-issue, add-to-project and then the edits of status, iteration,
\* priority, size and difficulty in this order (the iteration edit is the
\* second edit), and at most one call is outstanding at any time.
C6_CallsInSourceOrder ==
    /\ OneAtATime
    /\ exitCode = Some(0) =>
        /\ CallPrefixInOrder
        /\ EditedFields(calls) =
              <<"F_status", "F_iteration", "F_priority", "F_size", "F_difficulty">>
        /\ IsIterationEdit(calls[6])
        /\ \A i \in {5, 7, 8, 9} : IsSelectEdit(calls[i])

\* C6 witness: a successful run.
C6_Witness ==
    /\ exitCode = Some(0)
    /\ Len(calls) = 9
    /\ Len(replies) = 9

\* C7: a failed field edit is the last call of the run: the run has ended
\* with a non-zero status, nothing was retried, no further edit and no
\* compensating call was issued, and the one create-issue call stands.
C7_FailedEditEndsRun ==
    \A i \in DOMAIN replies :
        (IsEdit(calls[i]) /\ replies[i].rc # 0) =>
            /\ Ended
            /\ exitCode # None /\ exitCode[1] # 0
            /\ Len(calls) = i
            /\ Len(replies) = i
            /\ Count(IsCreate) = 1
            /\ Count(IsAdd) = 1
            /\ stdout = <<>>

\* C7 witness: the third field edit failed.
C7_Witness ==
    /\ Len(replies) = 7
    /\ IsEdit(calls[7])
    /\ replies[7].rc # 0

\* C8: when some of the five values are not options, exactly one message is
\* printed; it names the first such field in the order status, iteration,
\* priority, size, difficulty, and the value requested for it.
C8_FirstInvalidFieldReported ==
    SomeInvalid =>
        \E i \in DOMAIN EnumFields :
            /\ NotAnOption(EnumFields[i])
            /\ \A j \in DOMAIN EnumFields : j < i => ~NotAnOption(EnumFields[j])
            /\ stdout = <<"Invalid " \o EnumFields[i] \o ": "
                            \o args[1][EnumFields[i]] \o "\n">>

\* C8 witness: iteration, size and difficulty are not options, status is.
C8_Witness ==
    /\ Ended
    /\ project # None
    /\ ~NotAnOption("status")
    /\ NotAnOption("iteration")
    /\ NotAnOption("size")
    /\ NotAnOption("difficulty")
    /\ Len(stdout) = 1

\* C9: the current iteration number is the floor of the days since inception
\* divided by 7 (0 for 0 days, 1 for 13 days, 2 for 14 days), the next one is
\* the current one plus 1, and the requested iteration is the current one for
\* "@current" and the next one for "@next".
C9_IterationNumber ==
    (issue # None /\ today # None) =>
        LET iss == issue[1]
            days == today[1] - iss.inception
            cur == iteration_number_current(iss, today[1])
            nxt == iteration_number_next(iss, today[1])
            num == iteration_number(iss, today[1])
        IN  /\ 7 * cur <= days
            /\ days < 7 * cur + 7
            /\ days = 0 => cur = 0
            /\ days = 13 => cur = 1
            /\ days = 14 => cur = 2
            /\ nxt = cur + 1
            /\ iss.iteration = "@current" => num = cur
            /\ iss.iteration = "@next" => num = nxt
            /\ args # None => args[1].iteration = "Iteration " \o ToString(num)

\* C9 witness: one day before inception the next iteration is requested.
C9_Witness ==
    /\ issue # None
    /\ args # None
    /\ today[1] - issue[1].inception = -1
    /\ issue[1].iteration = "@next"
    /\ args[1].iteration = "Iteration 0"

AllCallsSucceeded ==
    /\ Len(replies) = 9
    /\ \A i \in DOMAIN replies : replies[i].rc = 0
    /\ replies[1].owner # None
    /\ replies[2].data # None
    /\ replies[4].id # None
    /\ Len(calls) = 9
    /\ IsOwnerLookup(calls[1])
    /\ IsProjectQuery(calls[2])
    /\ IsCreate(calls[3])
    /\ IsAdd(calls[4])
    /\ \A i \in 5 .. 9 : IsEdit(calls[i])

UrlWritten == \E i \in DOMAIN stdout : issue_url # None /\ stdout[i] = issue_url[1]

\* C10: the URL is on standard output and the exit code is 0 only when the
\* owner lookup, the project-info query, create-issue, add-to-project and the
\* five field edits have all succeeded; a run that has not ended that way has
\* not written the URL.
C10_UrlOnlyOnSuccess ==
    /\ exitCode = Some(0) => (Ended /\ AllCallsSucceeded /\ stdout = <<issue_url[1]>>)
    /\ UrlWritten => (exitCode = Some(0) /\ raised = "")
    /\ exitCode # Some(0) => ~UrlWritten

\* C10 witness: a run that wrote the URL.
C10_Witness ==
    /\ Ended
    /\ exitCode = Some(0)
    /\ UrlWritten

====
